---- MODULE Spec2Model ----
(***************************************************************************)
(* A model of the asynchronous dispatch engine of gogap/logs (log.go):     *)
(* the Logger with its buffered channel of messages, its map of output     *)
(* adapters, the background goroutine startLogger, and the goroutines of   *)
(* the callers of Error/Warn/Info/Debug, SetLevel, SetLogger, DelLogger,   *)
(* Flush, Close and Register.  Every step is one atomic access of the      *)
(* shared state of the Logger; what the code does between two such         *)
(* accesses without a lock is a separate step, so every interleaving the   *)
(* code allows is a behaviour.                                             *)
(***************************************************************************)
EXTENDS Integers, Sequences, FiniteSets, TLC

\* ---------------------------------------------------------------- bounds
\* channellen of NewLogger(channellen): the capacity of bl.msg.
ChanLen == 1
\* How many calls of Error/Warn/Info/Debug the callers make in a run.
MaxCalls == 2
\* How many adapter instances a run creates (the default console included).
MaxInst == 2
\* How many calls of Flush an adapter instance receives before the callers
\* stop calling Logger.Flush.
MaxFlush == 1

\* ------------------------------------------------------------- constants
LevelError == 0
LevelWarn == 1
LevelInfo == 2
LevelDebug == 3

Levels == LevelError..LevelDebug

\* The goroutines that call the Logger's methods.
Threads == {"t1", "t2"}
NoThread == "none"

\* Adapter names a caller may pass; "nope" is not registered when NewLogger
\* returns.
Names == {"console", "file", "nope"}

\* The loggerType values passed to Register: two constructors and nil.
Ctors == {"c1", "c2"}
NilCtor == "nil"

\* --------------------------------------------------------------- state
VARIABLES
  adapters,  \* the package's registry: name -> constructor, NilCtor
             \* when the name is absent
  level,     \* bl.level
  msg,       \* bl.msg: the buffered channel, oldest message first
  outputs,   \* bl.outputs: name -> index into inst, 0 when absent
  lock,      \* bl.lock: the goroutine holding it, or NoThread
  inst,      \* every LoggerInterface instance created so far: its name,
             \* whether its Init failed, the calls it has received, in
             \* order, and how many messages had been received from the
             \* channel when DelLogger deleted it (-1: not deleted)
  th,        \* the calling goroutines: where each stands and its locals
  w,         \* the goroutine running startLogger
  sent,      \* how many messages have been sent on bl.msg (numbers them)
  calls,     \* how many Error/Warn/Info/Debug calls were made
  closed,    \* a call of Close has returned
  fatal      \* the runtime has aborted the process

vars == <<adapters, level, msg, outputs, lock, inst, th, w, sent, calls,
          closed, fatal>>

\* ------------------------------------------------------------- helpers
NoText == <<>>

\* A logMsg: level and msg as in the code; id numbers the messages in the
\* order they were sent (the code keeps no such number).
NoMsg == [id |-> 0, level |-> 0, msg |-> NoText]

\* The name of the level method, as bl.log's tp argument.
TagOf(lv) ==
  CASE lv = LevelError -> "Error"
    [] lv = LevelWarn -> "Warn"
    [] lv = LevelInfo -> "Info"
    [] OTHER -> "Debug"

\* fmt.Sprintf("["+tp+"] "+generateFmtStr(len(v)), v...) in bl.log, as the
\* sequence of its pieces; the callers' argument is the one value "v".
Sprintf(tp) == <<"[", tp, "] ", "v", " ">>

\* fmt.Sprintf("[%s:%d] %s", filename, line, msg) in writerMsg, taken
\* because NewLogger enables the call depth and the caller is on the stack.
Annotate(text) == <<"[", "file:line", "] ">> \o text

\* One call received by an adapter instance; err says that WriteMsg
\* returned an error.
WriteEv(bm, err) ==
  [op |-> "WriteMsg", id |-> bm.id, msg |-> bm.msg, level |-> bm.level,
   err |-> err]
FlushEv ==
  [op |-> "Flush", id |-> 0, msg |-> NoText, level |-> 0, err |-> FALSE]
DestroyEv ==
  [op |-> "Destroy", id |-> 0, msg |-> NoText, level |-> 0, err |-> FALSE]

\* The keys of bl.outputs.
Keys == {n \in Names : outputs[n] # 0}
\* The instances in bl.outputs.
Active == {outputs[n] : n \in Keys}

\* How many messages have been received from bl.msg.
Received == sent - Len(msg)

\* A calling goroutine outside every method of the Logger.  Its locals:
\* level, msg (writerMsg), name, err (SetLogger, DelLogger), name, ctor
\* (the name and log of Register), bm, the range
\* in progress (todo, seen), the adapter l of the current iteration (cur);
\* snap is the set of instances that were in bl.outputs when bm was
\* received and mark the number of messages sent when Close or Flush was called
\* (history the code does not keep); ret is what the last call returned.
Idle(r) ==
  [pc |-> "idle", level |-> 0, msg |-> NoText, name |-> "", err |-> FALSE,
   ctor |-> NilCtor, bm |-> NoMsg, todo |-> {}, seen |-> {}, cur |-> 0, snap |-> {},
   mark |-> 0, ret |-> r]

\* startLogger blocked in the receive of its select.
WRecv ==
  [pc |-> "recv", bm |-> NoMsg, todo |-> {}, seen |-> {}, cur |-> 0,
   snap |-> {}]

\* The adapter instances created so far.
Insts == 1..Len(inst)

\* How many calls of op instance i has received.
Count(i, op) ==
  Cardinality({j \in 1..Len(inst[i].ev) : inst[i].ev[j].op = op})

\* inst with one more call received by instance i.
Called(i, e) == [inst EXCEPT ![i].ev = Append(@, e)]

\* A range over bl.outputs begins: the entries of the map are due.
\* The entries a range may produce next are those of the live map it has not
\* produced yet (RangeNext); it is over when every entry that was in the map
\* when it began and is still there was produced: an entry created
\* meanwhile may be produced or skipped (RangeOver).
RangeNext(seen) == Keys \ seen
RangeOver(todo) == todo = {}

\* A lookup that finds a constructor under every name.
RegisteredAlways(n) == TRUE

\* `log, ok := adapters[adaptername]`: ok.
Registered(n) == adapters[n] # NilCtor

\* ------------------------------------------------------------------ Init
\* The state NewLogger(ChanLen) returns: level Debug, the console adapter
\* set, the channel empty, startLogger started.
Init ==
  /\ adapters = [n \in Names |-> IF n = "nope" THEN NilCtor ELSE "c1"]
  /\ level = LevelDebug
  /\ msg = <<>>
  /\ outputs = [n \in Names |-> IF n = "console" THEN 1 ELSE 0]
  /\ lock = NoThread
  /\ inst = <<[name |-> "console", err |-> FALSE, ev |-> <<>>, gone |-> -1]>>
  /\ th = [t \in Threads |-> Idle("none")]
  /\ w = WRecv
  /\ sent = 0
  /\ calls = 0
  /\ closed = FALSE
  /\ fatal = FALSE

\* -------------------------------------------------------------- Register
\* A registry in which a later Register replaces the constructor.
DupNever(n) == FALSE

\* `_, dup := adapters[name]`: dup.
Dup(n) == adapters[n] # NilCtor

\* A caller calls Register(name, log).
RegisterCall(t, n, c) ==
  /\ ~fatal
  /\ th[t].pc = "idle"
  /\ th' = [th EXCEPT ![t] = [Idle("none") EXCEPT !.pc = "Register",
                                !.name = n, !.ctor = c]]
  /\ UNCHANGED <<adapters, level, msg, outputs, lock, inst, w, sent, calls,
                 closed, fatal>>

\* The body of Register: it panics ("provide is nil") when log is nil, and
\* ("called twice") when the name is taken, and stores log under name
\* otherwise.  Nothing recovers the panic, which ends the process.
Register(t) ==
  /\ ~fatal
  /\ th[t].pc = "Register"
  /\ IF th[t].ctor = NilCtor
       THEN /\ th' = [th EXCEPT ![t] = Idle("panic: nil")]
            /\ fatal' = TRUE
            /\ UNCHANGED adapters
       ELSE IF Dup(th[t].name)
       THEN /\ th' = [th EXCEPT ![t] = Idle("panic: twice")]
            /\ fatal' = TRUE
            /\ UNCHANGED adapters
       ELSE /\ adapters' = [adapters EXCEPT ![th[t].name] = th[t].ctor]
            /\ th' = [th EXCEPT ![t] = Idle("none")]
            /\ UNCHANGED fatal
  /\ UNCHANGED <<level, msg, outputs, lock, inst, w, sent, calls, closed>>

\* ------------------------------------------------ emit: log and writerMsg
\* bl.log(tp, level, v): formats the message and calls writerMsg.
log(t, lv) ==
  /\ ~fatal /\ ~closed
  /\ th[t].pc = "idle"
  /\ calls < MaxCalls
  /\ calls' = calls + 1
  /\ th' = [th EXCEPT ![t] = [Idle("none") EXCEPT !.pc = "writerMsg",
                                !.level = lv, !.msg = Sprintf(TagOf(lv))]]
  /\ UNCHANGED <<adapters, level, msg, outputs, lock, inst, w, sent, closed,
                 fatal>>

Error(t) == log(t, LevelError)
Warn(t) == log(t, LevelWarn)
Info(t) == log(t, LevelInfo)
Debug(t) == log(t, LevelDebug)

\* A filter that also drops the messages at the threshold itself.
FilteredAtThreshold(loglevel, lv) == loglevel >= lv

\* The filter of writerMsg: `if loglevel > bl.level { return nil }`.
Filtered(loglevel, lv) == loglevel > lv

\* writerMsg up to the send: the filter, then the message is built.
writerMsg(t) ==
  /\ ~fatal
  /\ th[t].pc = "writerMsg"
  /\ IF Filtered(th[t].level, level)
       THEN th' = [th EXCEPT ![t] = Idle("none")]
       ELSE th' = [th EXCEPT ![t].pc = "send", ![t].msg = Annotate(@)]
  /\ UNCHANGED <<adapters, level, msg, outputs, lock, inst, w, sent, calls,
                 closed, fatal>>

\* A channel that takes a message whatever it holds.
CanSendAlways == TRUE

\* A send on the buffered channel bl.msg can proceed.
CanSend == Len(msg) < ChanLen

\* `bl.msg <- lm`: blocks while the channel is full.
send(t) ==
  /\ ~fatal
  /\ th[t].pc = "send"
  /\ CanSend
  /\ msg' = Append(msg, [id |-> sent + 1, level |-> th[t].level,
                         msg |-> th[t].msg])
  /\ sent' = sent + 1
  /\ th' = [th EXCEPT ![t] = Idle("none")]
  /\ UNCHANGED <<adapters, level, outputs, lock, inst, w, calls, closed,
                 fatal>>

\* A SetLevel that also takes out of the queue the messages the new
\* threshold would filter.
SetLevelDropping(t, l) ==
  /\ ~fatal /\ ~closed
  /\ th[t].pc = "idle"
  /\ level' = l
  /\ msg' = SelectSeq(msg, LAMBDA m : ~Filtered(m.level, l))
  /\ th' = [th EXCEPT ![t] = Idle("none")]
  /\ UNCHANGED <<adapters, outputs, lock, inst, w, sent, calls, closed,
                 fatal>>

\* bl.level = l, without the lock.
SetLevel(t, l) ==
  /\ ~fatal /\ ~closed
  /\ th[t].pc = "idle"
  /\ level' = l
  /\ th' = [th EXCEPT ![t] = Idle("none")]
  /\ UNCHANGED <<adapters, msg, outputs, lock, inst, w, sent, calls, closed,
                 fatal>>

\* ------------------------------------------------------ startLogger
\* A goroutine that has received m starts `for _, l := range bl.outputs`.
Dispatching(r, m, pc) ==
  [r EXCEPT !.pc = pc, !.bm = m, !.todo = Keys, !.seen = {}, !.snap = Active]

\* The range produces the entry n: l is bl.outputs[n].
Produced(r, n, pc) ==
  [r EXCEPT !.pc = pc, !.cur = outputs[n], !.todo = @ \ {n},
            !.seen = @ \cup {n}]

\* A dispatcher that ends the range at the first WriteMsg that fails.
AfterWriteBreak(r, err, pc) ==
  [r EXCEPT !.pc = pc, !.cur = 0, !.todo = IF err THEN {} ELSE @]

\* A dispatcher that calls WriteMsg again when it failed.
AfterWriteRetry(r, err, pc) ==
  IF err THEN r ELSE [r EXCEPT !.pc = pc, !.cur = 0]

\* The dispatcher after l.WriteMsg returned err: `if err != nil` only
\* prints, and the range goes on.
AfterWrite(r, err, pc) == [r EXCEPT !.pc = pc, !.cur = 0]

\* `case bm := <-bl.msg`, and the range over bl.outputs begins.
WorkerRecv ==
  /\ ~fatal
  /\ w.pc = "recv"
  /\ msg # <<>>
  /\ w' = Dispatching(w, Head(msg), "range")
  /\ msg' = Tail(msg)
  /\ UNCHANGED <<adapters, level, outputs, lock, inst, th, sent, calls,
                 closed, fatal>>

\* One more iteration of `for _, l := range bl.outputs`.
WorkerNext(n) ==
  /\ ~fatal
  /\ w.pc = "range"
  /\ n \in RangeNext(w.seen)
  /\ w' = Produced(w, n, "write")
  /\ UNCHANGED <<adapters, level, msg, outputs, lock, inst, th, sent, calls,
                 closed, fatal>>

\* l.WriteMsg(bm.msg, bm.level), which returns err; an error is only
\* printed.
WorkerWrite(err) ==
  /\ ~fatal
  /\ w.pc = "write"
  /\ inst' = Called(w.cur, WriteEv(w.bm, err))
  /\ w' = AfterWrite(w, err, "range")
  /\ UNCHANGED <<adapters, level, msg, outputs, lock, th, sent, calls,
                 closed, fatal>>

\* The range is over: back to the select.
WorkerLoop ==
  /\ ~fatal
  /\ w.pc = "range"
  /\ RangeOver(w.todo)
  /\ w' = WRecv
  /\ UNCHANGED <<adapters, level, msg, outputs, lock, inst, th, sent, calls,
                 closed, fatal>>

\* ------------------------------------------------- SetLogger, DelLogger
\* bl.lock.Lock() of SetLogger(adaptername, config); err is what the new
\* adapter's Init(config) will return.
SetLoggerLock(t, n, err) ==
  /\ ~fatal /\ ~closed
  /\ th[t].pc = "idle"
  /\ lock = NoThread
  /\ Registered(n) => Len(inst) < MaxInst
  /\ lock' = t
  /\ th' = [th EXCEPT ![t] = [Idle("none") EXCEPT !.pc = "SetLogger",
                                !.name = n, !.err = err]]
  /\ UNCHANGED <<adapters, level, msg, outputs, inst, w, sent, calls, closed,
                 fatal>>

\* A SetLogger that stores the adapter only when its Init succeeded.
StoreIfOk(n, lg, err) == IF err THEN outputs ELSE [outputs EXCEPT ![n] = lg]

\* bl.outputs after `bl.outputs[adaptername] = lg`, which SetLogger does
\* before it looks at the error of lg.Init.
Store(n, lg, err) == [outputs EXCEPT ![n] = lg]

\* The body of SetLogger under the lock, and the deferred Unlock.
SetLogger(t) ==
  /\ ~fatal
  /\ th[t].pc = "SetLogger"
  /\ IF Registered(th[t].name)
       THEN /\ inst' = Append(inst, [name |-> th[t].name, err |-> th[t].err,
                                     ev |-> <<>>, gone |-> -1])
            /\ outputs' = Store(th[t].name, Len(inst) + 1, th[t].err)
            /\ th' = [th EXCEPT
                        ![t] = Idle(IF th[t].err THEN "initerr" ELSE "nil")]
       ELSE /\ th' = [th EXCEPT ![t] = Idle("unknown")]
            /\ UNCHANGED <<inst, outputs>>
  /\ lock' = NoThread
  /\ UNCHANGED <<adapters, level, msg, w, sent, calls, closed, fatal>>

\* bl.lock.Lock() of DelLogger(adaptername).
DelLoggerLock(t, n) ==
  /\ ~fatal /\ ~closed
  /\ th[t].pc = "idle"
  /\ lock = NoThread
  /\ lock' = t
  /\ th' = [th EXCEPT ![t] = [Idle("none") EXCEPT !.pc = "DelLogger",
                                !.name = n]]
  /\ UNCHANGED <<adapters, level, msg, outputs, inst, w, sent, calls, closed,
                 fatal>>

\* `if lg, ok := bl.outputs[adaptername]; ok`.
Present(n) == outputs[n] # 0

\* The lookup of DelLogger and lg.Destroy(), or the error and the Unlock.
DelLogger(t) ==
  /\ ~fatal
  /\ th[t].pc = "DelLogger"
  /\ IF Present(th[t].name)
       THEN /\ inst' = Called(outputs[th[t].name], DestroyEv)
            /\ th' = [th EXCEPT ![t].pc = "DelLogger_delete"]
            /\ UNCHANGED lock
       ELSE /\ th' = [th EXCEPT ![t] = Idle("unknown")]
            /\ lock' = NoThread
            /\ UNCHANGED inst
  /\ UNCHANGED <<adapters, level, msg, outputs, w, sent, calls, closed,
                 fatal>>

\* A range in progress after the entry n was deleted from the map: n is no
\* longer due, and an entry created under n later is a new entry.
Forget(r, n) == [r EXCEPT !.todo = @ \ {n}, !.seen = @ \ {n}]

\* A DelLogger that destroys the adapter and leaves it in the map.
DeleteNothing(n) == outputs

\* bl.outputs after delete(bl.outputs, n).
Delete(n) == [outputs EXCEPT ![n] = 0]

\* delete(bl.outputs, adaptername), return nil and the deferred Unlock.
DelLoggerDelete(t) ==
  /\ ~fatal
  /\ th[t].pc = "DelLogger_delete"
  /\ outputs' = Delete(th[t].name)
  /\ inst' = [inst EXCEPT ![outputs[th[t].name]].gone = Received]
  /\ th' = [u \in Threads |->
              IF u = t THEN Idle("nil") ELSE Forget(th[u], th[t].name)]
  /\ w' = Forget(w, th[t].name)
  /\ lock' = NoThread
  /\ UNCHANGED <<adapters, level, msg, sent, calls, closed, fatal>>

\* ------------------------------------------------------------- Close
ClosePcs == {"Close", "Close_recv", "Close_range", "Close_write",
             "Close_final", "Close_flush", "Close_destroy"}

\* A caller enters Close; the Logger is closed once.  mark remembers how
\* many messages had been sent when Close was called.
Close(t) ==
  /\ ~fatal /\ ~closed
  /\ th[t].pc = "idle"
  /\ \A u \in Threads : th[u].pc \notin ClosePcs
  /\ th' = [th EXCEPT ![t] = [Idle("none") EXCEPT !.pc = "Close",
                                !.mark = sent]]
  /\ UNCHANGED <<adapters, level, msg, outputs, lock, inst, w, sent, calls,
                 closed, fatal>>

\* `if len(bl.msg) > 0 { ... } else { break }`; after the break the range
\* of the last loop begins.
CloseLen(t) ==
  /\ ~fatal
  /\ th[t].pc = "Close"
  /\ IF Len(msg) > 0
       THEN th' = [th EXCEPT ![t].pc = "Close_recv"]
       ELSE th' = [th EXCEPT ![t].pc = "Close_final", ![t].todo = Keys,
                             ![t].seen = {}]
  /\ UNCHANGED <<adapters, level, msg, outputs, lock, inst, w, sent, calls,
                 closed, fatal>>

\* `bm := <-bl.msg` in Close: blocks while the channel is empty.
CloseRecv(t) ==
  /\ ~fatal
  /\ th[t].pc = "Close_recv"
  /\ msg # <<>>
  /\ th' = [th EXCEPT ![t] = Dispatching(@, Head(msg), "Close_range")]
  /\ msg' = Tail(msg)
  /\ UNCHANGED <<adapters, level, outputs, lock, inst, w, sent, calls,
                 closed, fatal>>

\* One more iteration of the range in Close's drain.
CloseNext(t, n) ==
  /\ ~fatal
  /\ th[t].pc = "Close_range"
  /\ n \in RangeNext(th[t].seen)
  /\ th' = [th EXCEPT ![t] = Produced(@, n, "Close_write")]
  /\ UNCHANGED <<adapters, level, msg, outputs, lock, inst, w, sent, calls,
                 closed, fatal>>

\* l.WriteMsg(bm.msg, bm.level) in Close's drain, which returns err; an
\* error is only printed.
CloseWrite(t, err) ==
  /\ ~fatal
  /\ th[t].pc = "Close_write"
  /\ inst' = Called(th[t].cur, WriteEv(th[t].bm, err))
  /\ th' = [th EXCEPT ![t] = AfterWrite(@, err, "Close_range")]
  /\ UNCHANGED <<adapters, level, msg, outputs, lock, w, sent, calls, closed,
                 fatal>>

\* The range of the drain is over: back to the len check.
CloseLoop(t) ==
  /\ ~fatal
  /\ th[t].pc = "Close_range"
  /\ RangeOver(th[t].todo)
  /\ th' = [th EXCEPT ![t].pc = "Close", ![t].bm = NoMsg, ![t].todo = {},
                      ![t].seen = {}, ![t].snap = {}]
  /\ UNCHANGED <<adapters, level, msg, outputs, lock, inst, w, sent, calls,
                 closed, fatal>>

\* One more iteration of the last loop of Close.
CloseFinalNext(t, n) ==
  /\ ~fatal
  /\ th[t].pc = "Close_final"
  /\ n \in RangeNext(th[t].seen)
  /\ th' = [th EXCEPT ![t] = Produced(@, n, "Close_flush")]
  /\ UNCHANGED <<adapters, level, msg, outputs, lock, inst, w, sent, calls,
                 closed, fatal>>

\* l.Flush() in the last loop.
CloseFlush(t) ==
  /\ ~fatal
  /\ th[t].pc = "Close_flush"
  /\ inst' = Called(th[t].cur, FlushEv)
  /\ th' = [th EXCEPT ![t].pc = "Close_destroy"]
  /\ UNCHANGED <<adapters, level, msg, outputs, lock, w, sent, calls, closed,
                 fatal>>

\* l.Destroy() in the last loop.
CloseDestroy(t) ==
  /\ ~fatal
  /\ th[t].pc = "Close_destroy"
  /\ inst' = Called(th[t].cur, DestroyEv)
  /\ th' = [th EXCEPT ![t].pc = "Close_final", ![t].cur = 0]
  /\ UNCHANGED <<adapters, level, msg, outputs, lock, w, sent, calls, closed,
                 fatal>>

\* The last loop is over and Close returns.
CloseReturn(t) ==
  /\ ~fatal
  /\ th[t].pc = "Close_final"
  /\ RangeOver(th[t].todo)
  /\ th' = [th EXCEPT ![t] = Idle("none")]
  /\ closed' = TRUE
  /\ UNCHANGED <<adapters, level, msg, outputs, lock, inst, w, sent, calls,
                 fatal>>

\* ------------------------------------------------------------- Flush
\* A caller enters Flush and its range over bl.outputs begins.  mark
\* remembers how many messages had been sent.
Flush(t) ==
  /\ ~fatal /\ ~closed
  /\ th[t].pc = "idle"
  /\ \A i \in Insts : Count(i, "Flush") < MaxFlush
  /\ th' = [th EXCEPT ![t] = [Idle("none") EXCEPT !.pc = "Flush",
                                !.todo = Keys, !.mark = sent]]
  /\ UNCHANGED <<adapters, level, msg, outputs, lock, inst, w, sent, calls,
                 closed, fatal>>

\* One more iteration of the range in Flush.
FlushNext(t, n) ==
  /\ ~fatal
  /\ th[t].pc = "Flush"
  /\ n \in RangeNext(th[t].seen)
  /\ th' = [th EXCEPT ![t] = Produced(@, n, "Flush_flush")]
  /\ UNCHANGED <<adapters, level, msg, outputs, lock, inst, w, sent, calls,
                 closed, fatal>>

\* l.Flush() in Flush.
FlushFlush(t) ==
  /\ ~fatal
  /\ th[t].pc = "Flush_flush"
  /\ inst' = Called(th[t].cur, FlushEv)
  /\ th' = [th EXCEPT ![t].pc = "Flush", ![t].cur = 0]
  /\ UNCHANGED <<adapters, level, msg, outputs, lock, w, sent, calls, closed,
                 fatal>>

\* The range is over and Flush returns.
FlushReturn(t) ==
  /\ ~fatal
  /\ th[t].pc = "Flush"
  /\ RangeOver(th[t].todo)
  /\ th' = [th EXCEPT ![t] = Idle("none")]
  /\ UNCHANGED <<adapters, level, msg, outputs, lock, inst, w, sent, calls,
                 closed, fatal>>

\* ------------------------------------------- the unsynchronised map
\* A goroutine is at an iteration step of a range over bl.outputs.
Ranging(r) == r.pc \in {"range", "Close_range", "Close_final", "Flush"}

\* A goroutine is about to write bl.outputs.
MapWriting(r) ==
  \/ r.pc = "SetLogger" /\ Registered(r.name)
  \/ r.pc = "DelLogger_delete"

\* startLogger and Close range over bl.outputs without bl.lock while
\* SetLogger and DelLogger write it: a data race.  When a write meets an
\* iteration step the Go runtime may stop the process ("fatal error:
\* concurrent map iteration and map write"); when it does not, the range
\* goes on as RangeNext and RangeOver say.
Throw ==
  /\ ~fatal
  /\ \E t \in Threads :
       /\ MapWriting(th[t])
       /\ Ranging(w) \/ \E u \in Threads \ {t} : Ranging(th[u])
  /\ fatal' = TRUE
  /\ UNCHANGED <<adapters, level, msg, outputs, lock, inst, th, w, sent,
                 calls, closed>>

\* ------------------------------------------------------------- Next
\* The Logger with two callers free to call every method.
Next ==
  \/ \E t \in Threads, n \in Names, c \in Ctors \cup {NilCtor} :
       RegisterCall(t, n, c)
  \/ \E t \in Threads : Register(t)
  \/ \E t \in Threads : Error(t)
  \/ \E t \in Threads : Warn(t)
  \/ \E t \in Threads : Info(t)
  \/ \E t \in Threads : Debug(t)
  \/ \E t \in Threads : writerMsg(t)
  \/ \E t \in Threads : send(t)
  \/ \E t \in Threads, l \in Levels : SetLevel(t, l)
  \/ \E t \in Threads, n \in Names, err \in BOOLEAN : SetLoggerLock(t, n, err)
  \/ \E t \in Threads : SetLogger(t)
  \/ \E t \in Threads, n \in Names : DelLoggerLock(t, n)
  \/ \E t \in Threads : DelLogger(t)
  \/ \E t \in Threads : DelLoggerDelete(t)
  \/ \E t \in Threads : Close(t)
  \/ \E t \in Threads : CloseLen(t)
  \/ \E t \in Threads : CloseRecv(t)
  \/ \E t \in Threads, n \in Names : CloseNext(t, n)
  \/ \E t \in Threads, err \in BOOLEAN : CloseWrite(t, err)
  \/ \E t \in Threads : CloseLoop(t)
  \/ \E t \in Threads, n \in Names : CloseFinalNext(t, n)
  \/ \E t \in Threads : CloseFlush(t)
  \/ \E t \in Threads : CloseDestroy(t)
  \/ \E t \in Threads : CloseReturn(t)
  \/ \E t \in Threads : Flush(t)
  \/ \E t \in Threads, n \in Names : FlushNext(t, n)
  \/ \E t \in Threads : FlushFlush(t)
  \/ \E t \in Threads : FlushReturn(t)
  \/ WorkerRecv
  \/ \E n \in Names : WorkerNext(n)
  \/ \E err \in BOOLEAN : WorkerWrite(err)
  \/ WorkerLoop
  \/ Throw

Spec == Init /\ [][Next]_vars

\* The steps of startLogger.
WorkerStep ==
  \/ WorkerRecv \/ (\E n \in Names : WorkerNext(n)) \/ WorkerLoop
  \/ \E err \in BOOLEAN : WorkerWrite(err)

\* The steps a caller takes inside the method it has entered.
CallerStep(t) ==
  \/ Register(t)
  \/ writerMsg(t) \/ send(t)
  \/ SetLogger(t) \/ DelLogger(t) \/ DelLoggerDelete(t)
  \/ CloseLen(t) \/ CloseRecv(t) \/ CloseLoop(t)
  \/ \E err \in BOOLEAN : CloseWrite(t, err)
  \/ CloseFlush(t) \/ CloseDestroy(t) \/ CloseReturn(t)
  \/ \E n \in Names : CloseNext(t, n) \/ CloseFinalNext(t, n)
  \/ FlushFlush(t) \/ FlushReturn(t)
  \/ \E n \in Names : FlushNext(t, n)

\* The Go scheduler: a goroutine that can take a step is eventually run.
\* Nothing obliges a caller to call a method.
Fairness == WF_vars(WorkerStep) /\ \A t \in Threads : WF_vars(CallerStep(t))

\* The specifications below are Spec with the callers given roles, which
\* keeps the reachable states few enough to enumerate: the actions are the
\* ones above, unchanged.  WriteMsg fails only in SpecFail and SpecDrain.

\* Both callers emit at every level and set the level; startLogger
\* dispatches.
NextEmit ==
  \/ \E t \in Threads : Error(t)
  \/ \E t \in Threads : Warn(t)
  \/ \E t \in Threads : Info(t)
  \/ \E t \in Threads : Debug(t)
  \/ \E t \in Threads : writerMsg(t)
  \/ \E t \in Threads : send(t)
  \/ \E t \in Threads, l \in Levels : SetLevel(t, l)
  \/ WorkerRecv
  \/ \E n \in Names : WorkerNext(n)
  \/ WorkerWrite(FALSE)
  \/ WorkerLoop

SpecEmit == Init /\ [][NextEmit]_vars

\* Caller t1 emits, caller t2 closes the Logger; the adapter set is fixed.
NextClose ==
  \/ Info("t1")
  \/ writerMsg("t1")
  \/ send("t1")
  \/ Close("t2")
  \/ CloseLen("t2")
  \/ CloseRecv("t2")
  \/ \E n \in Names : CloseNext("t2", n)
  \/ CloseWrite("t2", FALSE)
  \/ CloseLoop("t2")
  \/ \E n \in Names : CloseFinalNext("t2", n)
  \/ CloseFlush("t2")
  \/ CloseDestroy("t2")
  \/ CloseReturn("t2")
  \/ WorkerRecv
  \/ \E n \in Names : WorkerNext(n)
  \/ WorkerWrite(FALSE)
  \/ WorkerLoop

SpecClose == Init /\ [][NextClose]_vars

SpecCloseFair == SpecClose /\ Fairness

\* Caller t1 emits; caller t2 sets and deletes adapters and closes.
NextAd ==
  \/ Info("t1")
  \/ writerMsg("t1")
  \/ send("t1")
  \/ \E n \in Names, err \in BOOLEAN : SetLoggerLock("t2", n, err)
  \/ SetLogger("t2")
  \/ \E n \in Names : DelLoggerLock("t2", n)
  \/ DelLogger("t2")
  \/ DelLoggerDelete("t2")
  \/ Close("t2")
  \/ CloseLen("t2")
  \/ CloseRecv("t2")
  \/ \E n \in Names : CloseNext("t2", n)
  \/ CloseWrite("t2", FALSE)
  \/ CloseLoop("t2")
  \/ \E n \in Names : CloseFinalNext("t2", n)
  \/ CloseFlush("t2")
  \/ CloseDestroy("t2")
  \/ CloseReturn("t2")
  \/ WorkerRecv
  \/ \E n \in Names : WorkerNext(n)
  \/ WorkerWrite(FALSE)
  \/ WorkerLoop
  \/ Throw

SpecAd == Init /\ [][NextAd]_vars

\* Caller t1 emits; caller t2 sets and deletes adapters, every Init
\* succeeding; nobody closes.
NextDel ==
  \/ Info("t1")
  \/ writerMsg("t1")
  \/ send("t1")
  \/ \E n \in Names : SetLoggerLock("t2", n, FALSE)
  \/ SetLogger("t2")
  \/ \E n \in Names : DelLoggerLock("t2", n)
  \/ DelLogger("t2")
  \/ DelLoggerDelete("t2")
  \/ WorkerRecv
  \/ \E n \in Names : WorkerNext(n)
  \/ WorkerWrite(FALSE)
  \/ WorkerLoop
  \/ Throw

SpecDel == Init /\ [][NextDel]_vars

SpecDelFair == SpecDel /\ Fairness

\* Caller t1 emits; caller t2 sets adapters, whose Init may fail.
NextSet ==
  \/ Info("t1")
  \/ writerMsg("t1")
  \/ send("t1")
  \/ \E n \in Names, err \in BOOLEAN : SetLoggerLock("t2", n, err)
  \/ SetLogger("t2")
  \/ WorkerRecv
  \/ \E n \in Names : WorkerNext(n)
  \/ WorkerWrite(FALSE)
  \/ WorkerLoop
  \/ Throw

SpecSet == Init /\ [][NextSet]_vars

\* Caller t1 emits; caller t2 sets the file adapter, its Init succeeding,
\* and closes; WriteMsg may fail.
NextFail ==
  \/ Info("t1")
  \/ writerMsg("t1")
  \/ send("t1")
  \/ SetLoggerLock("t2", "file", FALSE)
  \/ SetLogger("t2")
  \/ Close("t2")
  \/ CloseLen("t2")
  \/ CloseRecv("t2")
  \/ \E n \in Names : CloseNext("t2", n)
  \/ \E err \in BOOLEAN : CloseWrite("t2", err)
  \/ CloseLoop("t2")
  \/ \E n \in Names : CloseFinalNext("t2", n)
  \/ CloseFlush("t2")
  \/ CloseDestroy("t2")
  \/ CloseReturn("t2")
  \/ WorkerRecv
  \/ \E n \in Names : WorkerNext(n)
  \/ \E err \in BOOLEAN : WorkerWrite(err)
  \/ WorkerLoop
  \/ Throw

SpecFail == Init /\ [][NextFail]_vars

\* Caller t1 emits, caller t2 closes the Logger; the adapter set is fixed
\* and WriteMsg may fail.
NextDrain ==
  \/ Info("t1")
  \/ writerMsg("t1")
  \/ send("t1")
  \/ Close("t2")
  \/ CloseLen("t2")
  \/ CloseRecv("t2")
  \/ \E n \in Names : CloseNext("t2", n)
  \/ \E err \in BOOLEAN : CloseWrite("t2", err)
  \/ CloseLoop("t2")
  \/ \E n \in Names : CloseFinalNext("t2", n)
  \/ CloseFlush("t2")
  \/ CloseDestroy("t2")
  \/ CloseReturn("t2")
  \/ WorkerRecv
  \/ \E n \in Names : WorkerNext(n)
  \/ \E err \in BOOLEAN : WorkerWrite(err)
  \/ WorkerLoop

SpecDrain == Init /\ [][NextDrain]_vars

\* Caller t1 emits; caller t2 calls Flush.
NextFlush ==
  \/ Info("t1")
  \/ writerMsg("t1")
  \/ send("t1")
  \/ Flush("t2")
  \/ \E n \in Names : FlushNext("t2", n)
  \/ FlushFlush("t2")
  \/ FlushReturn("t2")
  \/ WorkerRecv
  \/ \E n \in Names : WorkerNext(n)
  \/ WorkerWrite(FALSE)
  \/ WorkerLoop

SpecFlush == Init /\ [][NextFlush]_vars

\* Caller t1 emits and sets the level; caller t2 sets and deletes
\* adapters, every Init succeeding.
NextLevel ==
  \/ Info("t1")
  \/ writerMsg("t1")
  \/ send("t1")
  \/ \E l \in Levels : SetLevel("t1", l)
  \/ \E n \in Names : SetLoggerLock("t2", n, FALSE)
  \/ SetLogger("t2")
  \/ \E n \in Names : DelLoggerLock("t2", n)
  \/ DelLogger("t2")
  \/ DelLoggerDelete("t2")
  \/ WorkerRecv
  \/ \E n \in Names : WorkerNext(n)
  \/ WorkerWrite(FALSE)
  \/ WorkerLoop
  \/ Throw

SpecLevel == Init /\ [][NextLevel]_vars

\* Caller t1 emits; caller t2 registers constructors.
NextReg ==
  \/ Info("t1")
  \/ writerMsg("t1")
  \/ send("t1")
  \/ \E n \in Names, c \in Ctors \cup {NilCtor} : RegisterCall("t2", n, c)
  \/ Register("t2")
  \/ WorkerRecv
  \/ \E n \in Names : WorkerNext(n)
  \/ WorkerWrite(FALSE)
  \/ WorkerLoop

SpecReg == Init /\ [][NextReg]_vars

\* ============================================================ claims
\* Instance i has received WriteMsg for message k.
WrittenTo(i, k) ==
  \E j \in 1..Len(inst[i].ev) :
    inst[i].ev[j].op = "WriteMsg" /\ inst[i].ev[j].id = k

\* The message the caller t is about to send.
Sending(t) == [id |-> sent + 1, level |-> th[t].level, msg |-> th[t].msg]

\* C1: an emit at severity S leaves writerMsg's filter for the send exactly
\* when S <= bl.level, and otherwise returns with the queue as it was; the
\* send then appends that one message, and nothing else makes the queue
\* grow.
EmitIffSevere ==
  [][/\ \A t \in Threads :
          (th[t].pc = "writerMsg" /\ th'[t].pc # "writerMsg") =>
            /\ msg' = msg
            /\ IF th[t].level <= level
                 THEN th'[t].pc = "send" /\ th'[t].level = th[t].level
                 ELSE th'[t].pc = "idle"
     /\ \A t \in Threads :
          (th[t].pc = "send" /\ th'[t].pc # "send") =>
            th'[t].pc = "idle" /\ msg' = Append(msg, Sending(t))
     /\ Len(msg') > Len(msg) =>
          \E t \in Threads : th[t].pc = "send" /\ th'[t].pc = "idle"
    ]_vars

\* Two emits were made under threshold Warn: the one at Warn is queued, the
\* other was filtered.
EmitIffSevereWitness ==
  /\ calls = 2 /\ sent = 1 /\ level = LevelWarn
  /\ \A t \in Threads : th[t].pc = "idle"
  /\ Len(msg) = 1 /\ msg[1].level = LevelWarn

\* C7: the queue never holds more than ChanLen messages, and a caller at
\* the send stays there with its message, whatever the other goroutines do,
\* until the step that appends the message to the queue, which is taken
\* only when a slot is free: the message is never dropped.
Backpressure ==
  /\ [](Len(msg) <= ChanLen)
  /\ [][\A t \in Threads :
          th[t].pc = "send" =>
            \/ th'[t] = th[t]
            \/ /\ Len(msg) < ChanLen
               /\ msg' = Append(msg, Sending(t))
               /\ th'[t].pc = "idle"]_vars

\* A caller blocked at the send on a full queue.
BackpressureWitness ==
  \E t \in Threads : th[t].pc = "send" /\ Len(msg) = ChanLen

\* C2: every adapter instance receives its WriteMsg calls in the order in
\* which the messages were sent on the channel.
FifoDelivery ==
  \A i \in Insts : \A j1, j2 \in 1..Len(inst[i].ev) :
    (/\ j1 < j2
     /\ inst[i].ev[j1].op = "WriteMsg"
     /\ inst[i].ev[j2].op = "WriteMsg") =>
      inst[i].ev[j1].id < inst[i].ev[j2].id

\* C3: while Close is in its last loop, flushing and destroying, every
\* message sent before Close was called has been written to every adapter
\* in bl.outputs.
DrainedBeforeDestroy ==
  \A t \in Threads :
    th[t].pc \in {"Close_final", "Close_flush", "Close_destroy"} =>
      \A k \in 1..th[t].mark : \A i \in Active : WrittenTo(i, k)

\* C6: a caller that has entered Close gets out of it.
CloseReturns ==
  \A t \in Threads : (th[t].pc \in ClosePcs) ~> (th[t].pc = "idle")

\* C4: no adapter instance receives WriteMsg after it has received Destroy.
NoWriteAfterDestroy ==
  \A i \in Insts : \A j1, j2 \in 1..Len(inst[i].ev) :
    ~(/\ j1 < j2
      /\ inst[i].ev[j1].op = "Destroy"
      /\ inst[i].ev[j2].op = "WriteMsg")

\* C5: no instance is destroyed twice, and once Close has returned every
\* instance SetLogger created has been destroyed once.
DestroyedOnce ==
  /\ \A i \in Insts : Count(i, "Destroy") <= 1
  /\ closed => \A i \in Insts : Count(i, "Destroy") = 1

\* The instances that have received WriteMsg for message k.
WrittenSet(k) == {i \in Insts : WrittenTo(i, k)}

\* C8: when the goroutine that received a message ends its range, the
\* instances the message was written to are exactly those that were in
\* bl.outputs when it was received.
ExactFanout ==
  [][/\ (w.pc = "range" /\ w'.pc = "recv") => WrittenSet(w.bm.id) = w.snap
     /\ \A t \in Threads :
          (th[t].pc = "Close_range" /\ th'[t].pc = "Close") =>
            WrittenSet(th[t].bm.id) = th[t].snap]_vars

\* Instance i has received WriteMsg for message k with the text and level
\* of an Info message.
WrittenInfo(i, k) ==
  IF i \in Insts
    THEN \E j \in 1..Len(inst[i].ev) :
           inst[i].ev[j] = WriteEv([id |-> k, level |-> LevelInfo,
                                    msg |-> Annotate(Sprintf(TagOf(LevelInfo)))],
                                   FALSE)
    ELSE FALSE

\* Instance i is in bl.outputs and its Init succeeded.
SetOk(i) == IF i \in Active THEN ~inst[i].err ELSE FALSE

\* Instance i is out of bl.outputs, or a caller is inside a SetLogger or
\* DelLogger of its name, which takes it out.
Leaving(i) ==
  IF i \in Active
    THEN \E t \in Threads :
           /\ th[t].pc \in {"SetLogger", "DelLogger", "DelLogger_delete"}
           /\ th[t].name = inst[i].name
    ELSE TRUE

\* C9: once an instance is in bl.outputs, its Init having succeeded, every
\* message of a later emit (the k-th, fewer than k emits having been called)
\* that gets sent is eventually written to it with its text, unless the
\* instance is taken out of bl.outputs.
EventuallyWritten ==
  \A i \in 1..MaxInst, k \in 1..MaxCalls :
    []((SetOk(i) /\ calls < k) =>
         []((sent >= k) => <>(WrittenInfo(i, k) \/ Leaving(i))))

\* The adapter instance the DelLogger of caller t is about.
Target(t) == outputs[th[t].name]

\* C10: DelLogger of a name that is not in bl.outputs returns the unknown
\* adapter error and changes nothing; of a name that is, it destroys the
\* instance, then takes the name out of bl.outputs and returns nil; an
\* instance DelLogger took out receives no message that was received from
\* the channel after that, and no instance receives a message twice.
DelLoggerContract ==
  /\ [][\A t \in Threads :
          /\ (th[t].pc = "DelLogger" /\ th'[t].pc # "DelLogger") =>
               IF Target(t) = 0
                 THEN /\ th'[t].pc = "idle" /\ th'[t].ret = "unknown"
                      /\ UNCHANGED <<outputs, inst, msg, level>>
                 ELSE /\ th'[t].pc = "DelLogger_delete"
                      /\ inst'[Target(t)].ev =
                           Append(inst[Target(t)].ev, DestroyEv)
                      /\ UNCHANGED <<outputs, msg, level>>
          /\ (th[t].pc = "DelLogger_delete" /\ th'[t].pc # "DelLogger_delete") =>
               /\ th'[t].pc = "idle" /\ th'[t].ret = "nil"
               /\ outputs'[th[t].name] = 0
               /\ Target(t) \notin {outputs'[n] : n \in Names}
               /\ \A n \in Names \ {th[t].name} : outputs'[n] = outputs[n]]_vars
  /\ [](\A i \in Insts : \A j \in 1..Len(inst[i].ev) :
          (inst[i].gone >= 0 /\ inst[i].ev[j].op = "WriteMsg") =>
            inst[i].ev[j].id <= inst[i].gone)
  /\ [](\A i \in Insts : \A j1, j2 \in 1..Len(inst[i].ev) :
          (/\ j1 < j2
           /\ inst[i].ev[j1].op = "WriteMsg"
           /\ inst[i].ev[j2].op = "WriteMsg") =>
            inst[i].ev[j1].id # inst[i].ev[j2].id)

\* The console adapter received message 1 and was deleted; message 2 went
\* to the adapter set afterwards and not to the deleted one.
DelLoggerContractWitness ==
  \E i, i2 \in Insts :
    /\ i # i2
    /\ inst[i].gone = 1 /\ Count(i, "Destroy") = 1
    /\ WrittenTo(i, 1) /\ ~WrittenTo(i, 2)
    /\ WrittenTo(i2, 2)

\* C14: a Register with a constructor that is not nil and a name that is
\* not in the registry stores the constructor under the name and returns;
\* with a name that is in the registry it panics and the registry still
\* maps the name to the constructor it had; with nil it panics and the
\* registry is as it was.  Nothing else changes the registry.
RegisterContract ==
  [][/\ \A t \in Threads :
          (th[t].pc = "Register" /\ th'[t].pc # "Register") =>
            IF th[t].ctor # NilCtor /\ adapters[th[t].name] = NilCtor
              THEN /\ adapters' = [adapters EXCEPT ![th[t].name] = th[t].ctor]
                   /\ th'[t].ret = "none" /\ ~fatal'
              ELSE /\ adapters' = adapters
                   /\ th'[t].ret \in {"panic: nil", "panic: twice"}
                   /\ th'[t].ret = "panic: nil" <=> th[t].ctor = NilCtor
                   /\ fatal'
     /\ adapters' # adapters =>
          \E t \in Threads : th[t].pc = "Register" /\ th'[t].pc = "idle"
    ]_vars

\* The first Register of "nope" stored c1 and a second Register of a name
\* that was taken ended in a panic: the registry still maps "nope" to c1.
RegisterContractWitness ==
  /\ adapters["nope"] = "c1"
  /\ fatal
  /\ \E t \in Threads : th[t].ret = "panic: twice"

\* C11: a SetLogger whose name is not in the registry returns the unknown
\* adapter error; it creates no instance, calls no instance, and leaves
\* bl.outputs, the queue and the registry as they were.
SetLoggerUnknown ==
  [][\A t \in Threads :
       (/\ th[t].pc = "SetLogger" /\ th'[t].pc # "SetLogger"
        /\ adapters[th[t].name] = NilCtor) =>
         /\ th'[t].pc = "idle" /\ th'[t].ret = "unknown"
         /\ UNCHANGED <<inst, outputs, msg, adapters>>]_vars

\* A SetLogger returned the unknown adapter error while a message was in
\* the queue; the console adapter is the only instance.
SetLoggerUnknownWitness ==
  /\ \E t \in Threads : th[t].ret = "unknown"
  /\ Len(msg) = 1
  /\ Len(inst) = 1 /\ Active = {1}

\* C12: a SetLogger of a registered name whose Init fails returns the
\* error with the new instance stored under the name in bl.outputs; and
\* when startLogger ends the range of a message, every instance whose Init
\* failed that was in bl.outputs when the message was received, and still
\* is, has received the message.
InitFailureStored ==
  [][/\ \A t \in Threads :
          (/\ th[t].pc = "SetLogger" /\ th'[t].pc # "SetLogger"
           /\ adapters[th[t].name] # NilCtor /\ th[t].err) =>
            /\ th'[t].pc = "idle" /\ th'[t].ret = "initerr"
            /\ Len(inst') = Len(inst) + 1
            /\ inst'[Len(inst')].err /\ inst'[Len(inst')].name = th[t].name
            /\ outputs'[th[t].name] = Len(inst')
     /\ (w.pc = "range" /\ w'.pc = "recv") =>
          \A i \in w.snap \cap Active : inst[i].err => WrittenTo(i, w.bm.id)
    ]_vars

\* A SetLogger returned the error of Init, and the instance it stored has
\* received a message.
InitFailureStoredWitness ==
  /\ \E t \in Threads : th[t].ret = "initerr"
  /\ \E i \in Active : inst[i].err /\ \E k \in 1..sent : WrittenTo(i, k)

\* Instance i has received a WriteMsg for message k that failed.
FailedOn(i, k) ==
  \E j \in 1..Len(inst[i].ev) :
    /\ inst[i].ev[j].op = "WriteMsg" /\ inst[i].ev[j].id = k
    /\ inst[i].ev[j].err

\* C13: whether WriteMsg fails or not, the dispatcher (startLogger, or the
\* drain of Close) goes on with the same range and the same message, no
\* caller and no queued message is touched and the process goes on; at the
\* end of the range every instance that was in bl.outputs when the message
\* was received, and still is, has been given the message, and the
\* dispatcher is back at its receive; a caller's emit returns nothing.
WriteFailureContained ==
  [][/\ (w.pc = "write" /\ w' # w) =>
          /\ w' = [w EXCEPT !.pc = "range", !.cur = 0]
          /\ UNCHANGED <<th, msg, outputs, fatal>>
     /\ \A t \in Threads :
          (th[t].pc = "Close_write" /\ th'[t] # th[t]) =>
            /\ th'[t] = [th[t] EXCEPT !.pc = "Close_range", !.cur = 0]
            /\ \A u \in Threads \ {t} : th'[u] = th[u]
            /\ UNCHANGED <<w, msg, outputs, fatal>>
     /\ (w.pc = "range" /\ w'.pc # "range" /\ w'.pc # "write") =>
          /\ w' = WRecv
          /\ \A i \in w.snap \cap Active : WrittenTo(i, w.bm.id)
     /\ \A t \in Threads :
          (/\ th[t].pc = "Close_range"
           /\ th'[t].pc # "Close_range" /\ th'[t].pc # "Close_write") =>
            /\ th'[t].pc = "Close"
            /\ \A i \in th[t].snap \cap Active : WrittenTo(i, th[t].bm.id)
     /\ \A t \in Threads :
          (th[t].pc = "send" /\ th'[t].pc # "send") => th'[t] = Idle("none")
    ]_vars

\* The WriteMsg of message 1 failed on one instance and another instance
\* was given message 1; message 2 was written after that.
WriteFailureContainedWitness ==
  \E i, i2 \in Insts :
    /\ i # i2
    /\ FailedOn(i, 1) /\ WrittenTo(i2, 1)
    /\ \E i3 \in Insts : WrittenTo(i3, 2)

\* The messages the dispatchers hold: received and not yet through the
\* range.
Held ==
  [d \in Threads \cup {"w"} |->
     IF d = "w" THEN (IF w.pc \in {"range", "write"} THEN w.bm.id ELSE 0)
       ELSE IF th[d].pc \in {"Close_range", "Close_write"}
              THEN th[d].bm.id ELSE 0]

\* C18: no instance receives WriteMsg twice for one message, a failed
\* WriteMsg included; no two dispatchers hold the same message; and a
\* message leaves the queue from its head to exactly one dispatcher,
\* startLogger or the drain of Close.
AtMostOnce ==
  /\ [](\A i \in Insts : \A j1, j2 \in 1..Len(inst[i].ev) :
          (/\ j1 # j2
           /\ inst[i].ev[j1].op = "WriteMsg"
           /\ inst[i].ev[j2].op = "WriteMsg") =>
            inst[i].ev[j1].id # inst[i].ev[j2].id)
  /\ [](\A d1, d2 \in Threads \cup {"w"} :
          (d1 # d2 /\ Held[d1] # 0) => Held[d1] # Held[d2])
  /\ [][Len(msg') < Len(msg) =>
          /\ msg' = Tail(msg)
          /\ Cardinality({d \in Threads \cup {"w"} :
                            Held'[d] = Head(msg).id /\ Held[d] = 0}) = 1]_vars

\* The WriteMsg of message 1 failed on the console adapter and message 2
\* was written to it, each once, and Close has returned.
AtMostOnceWitness ==
  /\ FailedOn(1, 1) /\ WrittenTo(1, 2)
  /\ Count(1, "WriteMsg") = 2
  /\ closed

\* C15: when Logger.Flush returns, every message that had been sent when
\* it was called has been written to every instance in bl.outputs, and
\* every instance in bl.outputs has received Flush.
FlushFlushesAll ==
  [][\A t \in Threads :
       (th[t].pc = "Flush" /\ th'[t].pc = "idle") =>
         /\ \A k \in 1..th[t].mark : \A i \in Active : WrittenTo(i, k)
         /\ \A i \in Active : Count(i, "Flush") >= 1]_vars

\* A caller is in the drain of Close: it has found a message in the queue
\* and is receiving or dispatching it.
Draining(t) == th[t].pc \in {"Close_recv", "Close_range", "Close_write"}

\* C16: while a caller is in the drain of Close, and after Close has
\* returned, startLogger receives no message from the queue; and after
\* Close has returned no instance receives a call.
CloseDrainsAlone ==
  [][/\ ((\E t \in Threads : Draining(t)) \/ closed) =>
          ~(w.pc = "recv" /\ w'.pc # "recv")
     /\ closed => inst' = inst]_vars

\* C17: every Destroy an instance receives comes right after a Flush of
\* that instance, with no WriteMsg in between.
FlushBeforeDestroy ==
  \A i \in Insts : \A j \in 1..Len(inst[i].ev) :
    inst[i].ev[j].op = "Destroy" =>
      (j > 1 /\ inst[i].ev[j - 1].op = "Flush")

\* C19: a step that changes bl.level changes nothing else of the Logger:
\* the queue, bl.outputs, the instances and startLogger are as they were;
\* startLogger receives the head of the queue and writes the message it
\* holds whatever bl.level is; so every message received from the queue is
\* held by startLogger or has been written to the console adapter.
SetLevelFrame ==
  /\ [][/\ level' # level =>
             UNCHANGED <<msg, outputs, inst, adapters, lock, w, sent>>
        /\ (w.pc = "recv" /\ w' # w) =>
             w'.bm = Head(msg) /\ msg' = Tail(msg)
        /\ (w.pc = "write" /\ w' # w) =>
             inst'[w.cur].ev = Append(inst[w.cur].ev, WriteEv(w.bm, FALSE))
       ]_vars
  /\ [](\A k \in 1..Received : w.bm.id = k \/ WrittenTo(1, k))

\* The threshold is Error; one Debug message, sent before the threshold
\* was lowered, has been written to the console adapter and another is in
\* the queue.
SetLevelFrameWitness ==
  /\ level = LevelError
  /\ Len(msg) = 1 /\ msg[1].level = LevelDebug
  /\ \E j \in 1..Len(inst[1].ev) :
       inst[1].ev[j].op = "WriteMsg" /\ inst[1].ev[j].level = LevelDebug

\* A caller is in the section of SetLogger or DelLogger between Lock and
\* Unlock.
InSection(t) == th[t].pc \in {"SetLogger", "DelLogger", "DelLogger_delete"}

\* C20: SetLogger, DelLogger and SetLevel update the Logger under bl.lock:
\* a caller in the section of SetLogger or DelLogger holds the lock, no two
\* callers are there together, bl.level is never written while a caller
\* holds the lock, and the lock changes hands only at the Lock and Unlock
\* of SetLogger and DelLogger, never in an emit.
LockGuardsManagement ==
  /\ [](\A t \in Threads : InSection(t) => lock = t)
  /\ [](\A t, u \in Threads : (InSection(t) /\ InSection(u)) => t = u)
  /\ [][level' # level => lock = NoThread]_vars
  /\ [][lock' # lock =>
          \E t \in Threads :
            \/ lock = NoThread /\ lock' = t /\ ~InSection(t) /\ InSection(t)'
            \/ lock = t /\ lock' = NoThread /\ InSection(t) /\ ~InSection(t)'
       ]_vars

====
